---- MODULE Spec2Model ----
(***************************************************************************)
(* Conversation Suggestions API: the suggestion engine                     *)
(* (services/ConversationSuggestionEngine.py) and the transport layer      *)
(* around it (main.py: ConnectionManager, the WebSocket endpoint and the   *)
(* POST /suggestions endpoint).                                            *)
(*                                                                         *)
(* A text is a sequence of fragments.  The raw backend output is modelled  *)
(* character by character (every fragment is one character), so that       *)
(* strip / split / json.loads act on it as they do in Python.  Roles,      *)
(* contents, topics and interests are never inspected by the code and are  *)
(* single opaque fragments.                                                *)
(***************************************************************************)
EXTENDS Integers, Sequences, FiniteSets, TLC

QUOTE == "\""
NL == "\n"
DASH == "-"
SPACE == " "

\* The whitespace characters of the modelled alphabet (str.strip() with no
\* argument and the JSON decoder's WHITESPACE agree on them).
Whitespace == {SPACE, NL}

\* s[i:i+1] : the character at 1-based position i, "" outside the text.
At(s, i) == IF i \in 1..Len(s) THEN s[i] ELSE ""

\* s[:n]
Prefix(s, n) == SubSeq(s, 1, IF Len(s) < n THEN Len(s) ELSE n)

\* s[-n:]
Suffix(s, n) == SubSeq(s, (IF Len(s) < n THEN 0 ELSE Len(s) - n) + 1, Len(s))

RECURSIVE lstrip(_, _)
lstrip(s, cs) == IF s # <<>> /\ Head(s) \in cs THEN lstrip(Tail(s), cs) ELSE s

RECURSIVE rstrip(_, _)
rstrip(s, cs) ==
    IF s # <<>> /\ s[Len(s)] \in cs THEN rstrip(SubSeq(s, 1, Len(s) - 1), cs) ELSE s

\* str.strip(chars): removes leading and trailing characters that are in cs.
strip(s, cs) == rstrip(lstrip(s, cs), cs)

\* str.split("\n"): the pieces between newlines, empty pieces kept.
RECURSIVE split(_, _, _)
split(s, cur, acc) ==
    IF s = <<>> THEN Append(acc, cur)
    ELSE IF Head(s) = NL THEN split(Tail(s), <<>>, Append(acc, cur))
    ELSE split(Tail(s), Append(cur, Head(s)), acc)

\* sep.join(parts)
RECURSIVE join(_, _)
join(sep, parts) ==
    IF parts = <<>> THEN <<>>
    ELSE IF Len(parts) = 1 THEN parts[1]
    ELSE parts[1] \o sep \o join(sep, Tail(parts))

(***************************************************************************)
(* Python values as the engine produces them: t is the type, s the text of *)
(* a str / the literal of a number, l the items of a list.                 *)
(***************************************************************************)
PyStr(chars) == [t |-> "str", s |-> chars, l |-> <<>>]
PyNum(chars) == [t |-> "int", s |-> chars, l |-> <<>>]
PyConst(name) == [t |-> name, s |-> <<>>, l |-> <<>>]
PyList(items) == [t |-> "list", s |-> <<>>, l |-> items]
PyDict == [t |-> "dict", s |-> <<>>, l |-> <<>>]

(***************************************************************************)
(* json.loads on a text over the modelled alphabet                         *)
(*   " - space newline [ ] { } , digits and letters.                       *)
(* The alphabet has no backslash, colon, dot or exponent, so a string has  *)
(* no escapes, an object can only be empty and a number is an integer.     *)
(* Every failure is a json.JSONDecodeError.                                *)
(***************************************************************************)
Digits == {"0", "1", "2", "3", "4", "5", "6", "7", "8", "9"}

Ok(v, e) == [ok |-> TRUE, val |-> v, end |-> e]
Fail == [ok |-> FALSE, val |-> PyConst("None"), end |-> 0]

\* WHITESPACE.match(s, i).end(): the first position at or after i that holds
\* no whitespace.
RECURSIVE SkipWs(_, _)
SkipWs(s, i) == IF At(s, i) \in Whitespace THEN SkipWs(s, i + 1) ELSE i

\* The first position at or after i that holds no digit.
RECURSIVE SkipDigits(_, _)
SkipDigits(s, i) == IF At(s, i) \in Digits THEN SkipDigits(s, i + 1) ELSE i

\* scanstring, strict: i is the position after the opening quote.  The string
\* ends at the next quote; a control character (newline) before it, or no
\* closing quote, is an error.
RECURSIVE scanstring(_, _, _)
scanstring(s, i, acc) ==
    IF i > Len(s) THEN Fail
    ELSE IF s[i] = QUOTE THEN Ok(PyStr(acc), i + 1)
    ELSE IF s[i] = NL THEN Fail
    ELSE scanstring(s, i + 1, Append(acc, s[i]))

\* NUMBER_RE: -?(0|[1-9][0-9]*) at position i.
match_number(s, i) ==
    LET d == IF At(s, i) = DASH THEN i + 1 ELSE i
        e == IF At(s, d) = "0" THEN d + 1 ELSE SkipDigits(s, d)
    IN  IF At(s, d) \in Digits THEN Ok(PyNum(SubSeq(s, i, e - 1)), e) ELSE Fail

\* s[i:i+len(word)] == word
IsLiteral(s, i, word) ==
    /\ i + Len(word) - 1 <= Len(s)
    /\ SubSeq(s, i, i + Len(word) - 1) = word

\* JSONObject: i is the position after "{".  Without a colon in the alphabet
\* only the empty object parses.
JSONObject(s, i) ==
    LET j == SkipWs(s, i) IN IF At(s, j) = "}" THEN Ok(PyDict, j + 1) ELSE Fail

RECURSIVE scan_once(_, _)
RECURSIVE JSONArrayItems(_, _, _)

\* JSONArray: i is the position after "[".
JSONArray(s, i) ==
    LET j == SkipWs(s, i)
    IN  IF At(s, j) = "]" THEN Ok(PyList(<<>>), j + 1) ELSE JSONArrayItems(s, j, <<>>)

\* The loop of JSONArray: a value, then "]" or "," and the next value.
JSONArrayItems(s, i, acc) ==
    LET r == scan_once(s, i)
        j == SkipWs(s, r.end)
    IN  IF ~r.ok THEN Fail
        ELSE IF At(s, j) = "]" THEN Ok(PyList(Append(acc, r.val)), j + 1)
        ELSE IF At(s, j) # "," THEN Fail
        ELSE JSONArrayItems(s, SkipWs(s, j + 1), Append(acc, r.val))

\* scanner.scan_once: one JSON value starting at position i.
scan_once(s, i) ==
    LET c == At(s, i)
    IN  IF c = QUOTE THEN scanstring(s, i + 1, <<>>)
        ELSE IF c = "{" THEN JSONObject(s, i + 1)
        ELSE IF c = "[" THEN JSONArray(s, i + 1)
        ELSE IF IsLiteral(s, i, <<"n", "u", "l", "l">>) THEN Ok(PyConst("None"), i + 4)
        ELSE IF IsLiteral(s, i, <<"t", "r", "u", "e">>) THEN Ok(PyConst("True"), i + 4)
        ELSE IF IsLiteral(s, i, <<"f", "a", "l", "s", "e">>) THEN Ok(PyConst("False"), i + 5)
        ELSE IF match_number(s, i).ok THEN match_number(s, i)
        ELSE IF IsLiteral(s, i, <<"N", "a", "N">>) THEN Ok(PyConst("nan"), i + 3)
        ELSE IF IsLiteral(s, i, <<"I", "n", "f", "i", "n", "i", "t", "y">>)
             THEN Ok(PyConst("inf"), i + 8)
        ELSE IF IsLiteral(s, i, <<"-", "I", "n", "f", "i", "n", "i", "t", "y">>)
             THEN Ok(PyConst("-inf"), i + 9)
        ELSE Fail

\* json.loads(s): one value, whitespace around it, nothing else.
json_loads(s) ==
    LET r == scan_once(s, SkipWs(s, 1))
    IN  IF r.ok /\ SkipWs(s, r.end) = Len(s) + 1 THEN r ELSE Fail

(***************************************************************************)
(* ConversationSuggestionEngine                                            *)
(***************************************************************************)

\* What suggestion_chain.run does in one call: it returns a text, or raises.
Returns(text) == [kind |-> "text", text |-> text, exc |-> ""]
NoRun == [kind |-> "none", text |-> <<>>, exc |-> ""]
Raises(exc) == [kind |-> "raise", text |-> <<>>, exc |-> exc]

\* The base classes of the exception types the backend call raises.
ExceptionBases ==
    [e \in {"TimeoutError", "ConnectionRefusedError", "OllamaEndpointNotFoundError",
            "ValueError", "JSONDecodeError"} |->
        CASE e = "TimeoutError" -> {"OSError", "Exception"}
          [] e = "ConnectionRefusedError" -> {"ConnectionError", "OSError", "Exception"}
          [] e = "OllamaEndpointNotFoundError" -> {"Exception"}
          [] e = "ValueError" -> {"Exception"}
          [] e = "JSONDecodeError" -> {"ValueError", "Exception"}]

\* Whether "except cls" catches an exception of type exc.
Catches(cls, exc) == exc = cls \/ cls \in ExceptionBases[exc]

\* The results of a call: a returned list, or an exception that leaves it.
\* path names the branch of generate_suggestions that produced it.
Return(path, value) == [outcome |-> "return", path |-> path, value |-> value, exc |-> ""]
Raise(path, exc) == [outcome |-> "raise", path |-> path, value |-> <<>>, exc |-> exc]

SuggestionLimit == 3

FALLBACK ==
    << PyStr(<<"Let's change the topic.">>),
       PyStr(<<"Expand on that idea.">>),
       PyStr(<<"How did that make you feel?">>) >>

\* json_branch with suggestions[-3:] for suggestions[:3].
json_branch_last(response, suggestions) ==
    IF suggestions.t = "list"
    THEN Return("json_list", Suffix(suggestions.l, 3))
    ELSE Return("json_other", <<PyStr(response)>>)

\* Lines 77-80: the value json.loads produced.
json_branch(response, suggestions) ==
    IF suggestions.t = "list"
    THEN Return("json_list", Prefix(suggestions.l, SuggestionLimit))
    ELSE Return("json_other", <<PyStr(response)>>)

\* Line 86: line.strip().strip('"-').strip()
clean(line) == strip(strip(strip(line, Whitespace), {QUOTE, DASH}), Whitespace)

\* Lines 87-91: the lines the fallback keeps.
keeps(cleaned) == cleaned # <<>> /\ At(cleaned, 1) # "[" /\ At(cleaned, 1) # "]"

\* Lines 84-92: the loop over the lines.
RECURSIVE collect(_, _)
collect(lines, suggestions) ==
    IF lines = <<>> THEN suggestions
    ELSE collect(Tail(lines),
                 IF keeps(clean(Head(lines)))
                 THEN Append(suggestions, PyStr(clean(Head(lines))))
                 ELSE suggestions)

\* Lines 81-93: except json.JSONDecodeError, response being bound.
lines_branch(response) ==
    Return("lines",
           Prefix(collect(split(strip(response, Whitespace), <<>>, <<>>), <<>>),
                  SuggestionLimit))

\* Lines 67-100.  When the chain itself raises, response is not bound: the
\* JSONDecodeError handler reads it at line 83 and raises UnboundLocalError,
\* which no other handler of the same try statement catches.
generate_suggestions(run) ==
    IF run.kind = "raise"
    THEN IF Catches("JSONDecodeError", run.exc) THEN Raise("lines", "UnboundLocalError")
         ELSE IF Catches("Exception", run.exc) THEN Return("fallback", FALLBACK)
         ELSE Raise("none", run.exc)
    ELSE LET loaded == json_loads(strip(run.text, Whitespace))
         IN  IF loaded.ok THEN json_branch(run.text, loaded.val) ELSE lines_branch(run.text)

\* dict.get(key, default)
get(msg, key, default) == IF key \in DOMAIN msg THEN msg[key] ELSE default

HistoryWindow == 5

\* Lines 126-130: the history text, one "{role}: {content}\n" per message.
RECURSIVE render(_)
render(msgs) ==
    IF msgs = <<>> THEN <<>>
    ELSE <<get(Head(msgs), "role", "user"), ": ">> \o get(Head(msgs), "content", <<>>) \o <<NL>>
         \o render(Tail(msgs))

\* format_history with recent_messages[:5] for recent_messages[-5:].
format_history_first(recent_messages) == render(Prefix(recent_messages, 5))

format_history(recent_messages) == render(Suffix(recent_messages, HistoryWindow))

\* Lines 132-134.  None and the empty list are both the empty sequence: the
\* code reads only their truth value.
format_preferences(user_interests) ==
    IF user_interests # <<>>
    THEN <<"User is interested in: ">> \o join(<<", ">>, [i \in DOMAIN user_interests |-> <<user_interests[i]>>])
    ELSE <<>>

\* Line 136.  topic is a text; "" is the empty text.
format_context(topic) ==
    IF topic # <<>> THEN <<"Current topic: ">> \o topic ELSE <<"General conversation">>

\* Lines 125-141: the arguments handed to the chain, and what comes back.
get_contextual_suggestions(recent_messages, topic, user_interests, run) ==
    [ prompt |-> [ conversation_history |-> format_history(recent_messages),
                   current_topic |-> format_context(topic),
                   user_preferences |-> format_preferences(user_interests) ],
      ret |-> generate_suggestions(run) ]

(***************************************************************************)
(* main.py: ConnectionManager, the WebSocket endpoint, POST /suggestions   *)
(***************************************************************************)

\* The WebSocket objects and the client ids of their paths (/ws/{client_id}).
Sessions == {"w1", "w2"}
Clients == {"alice", "bob"}

\* Line 42: the number of messages a history keeps.
MaxHistory == 20

\* Inbound "message" frames per WebSocket.
MaxMessages == 1

\* Direct calls of add_message_to_history per conversation.
MaxAppends == 22

VARIABLES
    active_connections,      \* manager.active_connections
    conversation_histories,  \* manager.conversation_histories: client id -> list
    ws,                      \* each websocket_endpoint coroutine and its executor job
    post,                    \* the POST /suggestions request being served
    loop,                    \* what runs on the event loop thread: "idle" or a handler
    appended                 \* per client id, every message add_message_to_history was given

vars == <<active_connections, conversation_histories, ws, post, loop, appended>>

NoPrompt == [conversation_history |-> <<>>, current_topic |-> <<>>, user_preferences |-> <<>>]
NoRet == Return("none", <<>>)
NoFrame == [type |-> "none", role |-> "", content |-> <<>>, suggestions |-> <<>>]
MessageFrame(role, content) ==
    [type |-> "message", role |-> role, content |-> content, suggestions |-> <<>>]
SuggestionsFrame(suggestions) ==
    [type |-> "suggestions", role |-> "", content |-> <<>>, suggestions |-> suggestions]

\* A job of the default executor.  The list it was handed is the list object
\* of the client's history while live holds (appends to it are seen), and the
\* contents in list once the manager has bound the id to another list object.
NoJob == [st |-> "none", live |-> FALSE, list |-> <<>>, prompt |-> NoPrompt, ret |-> NoRet]

Message(role, content) == [role |-> role, content |-> content]

\* add_message_to_history keeping the first 20 messages, [:20] for [-20:].
add_message_to_history_first(histories, client_id, role, content) ==
    LET known == IF client_id \in DOMAIN histories THEN histories[client_id] ELSE <<>>
        grown == Append(known, Message(role, content))
    IN  [c \in DOMAIN histories \cup {client_id} |->
            IF c = client_id THEN Prefix(grown, 20) ELSE histories[c]]

\* Lines 33-45.
add_message_to_history(histories, client_id, role, content) ==
    LET known == IF client_id \in DOMAIN histories THEN histories[client_id] ELSE <<>>
        grown == Append(known, Message(role, content))
        kept == IF Len(grown) > MaxHistory THEN Suffix(grown, MaxHistory) ELSE grown
    IN  [c \in DOMAIN histories \cup {client_id} |->
            IF c = client_id THEN kept ELSE histories[c]]

\* Line 23: conversation_histories[client_id] = []
reset_history(histories, client_id) ==
    [c \in DOMAIN histories \cup {client_id} |-> IF c = client_id THEN <<>> ELSE histories[c]]

\* Lines 27-28: del conversation_histories[client_id], when present.
delete_history(histories, client_id) ==
    [c \in DOMAIN histories \ {client_id} |-> histories[c]]

\* Line 26: active_connections.remove(websocket)
remove(connections, websocket) == SelectSeq(connections, LAMBDA x : x # websocket)

\* The jobs that hold the list object of client_id, once the manager binds the
\* id to another object (lines 23, 28, 43): they keep the old object, whose
\* contents are final.
detach(w, client_id, final) ==
    [s \in DOMAIN w |->
        IF w[s].job.st = "queued" /\ w[s].job.live /\ w[s].client_id = client_id
        THEN [w[s] EXCEPT !.job.live = FALSE, !.job.list = final]
        ELSE w[s]]

\* The list object of client_id is replaced when add_message_to_history creates
\* the entry or slices it (lines 35 and 43).
after_add(w, histories, client_id, role, content) ==
    IF client_id \in DOMAIN histories /\ Len(histories[client_id]) >= MaxHistory
    THEN detach(w, client_id, Append(histories[client_id], Message(role, content)))
    ELSE w

Init ==
    /\ active_connections = <<>>
    /\ conversation_histories = [c \in {} |-> <<>>]
    /\ ws = [s \in Sessions |->
                [st |-> "new", client_id |-> "", n |-> 0, user_message |-> <<>>,
                 mine |-> <<>>, sent |-> NoFrame, job |-> NoJob]]
    /\ post = [st |-> "idle", request |-> [x \in {} |-> <<>>], run |-> NoRun,
               prompt |-> NoPrompt, ret |-> NoRet, status |-> 0]
    /\ loop = "idle"
    /\ appended = [c \in Clients |-> <<>>]

\* Lines 165-166 and 20-23: a client opens /ws/{client_id}.
Connect(s, c) ==
    /\ loop = "idle"
    /\ ws[s].st = "new"
    /\ active_connections' = Append(active_connections, s)
    /\ conversation_histories' = reset_history(conversation_histories, c)
    /\ ws' = [ IF c \in DOMAIN conversation_histories
               THEN detach(ws, c, conversation_histories[c]) ELSE ws
               EXCEPT ![s].st = "receive", ![s].client_id = c ]
    /\ UNCHANGED <<post, loop, appended>>

\* Lines 171-183: a "message" frame arrives; the user message is recorded
\* and echoed.
ReceiveMessage(s, content) ==
    LET c == ws[s].client_id
    IN  /\ loop = "idle"
        /\ ws[s].st = "receive"
        /\ ws[s].n < MaxMessages
        /\ conversation_histories' =
               add_message_to_history(conversation_histories, c, "user", content)
        /\ appended' = [appended EXCEPT ![c] = Append(@, Message("user", content))]
        /\ ws' = [ after_add(ws, conversation_histories, c, "user", content)
                   EXCEPT ![s].st = "send_user",
                          ![s].n = @ + 1,
                          ![s].user_message = content,
                          ![s].mine = Append(@, Message("user", content)),
                          ![s].sent = MessageFrame("user", content) ]
        /\ UNCHANGED <<active_connections, post, loop>>

\* Lines 185-196: the echo is sent; the placeholder reply is recorded and sent.
ReplyMessage(s) ==
    LET c == ws[s].client_id
        avatar_response == <<"I understand you said: ">> \o ws[s].user_message
    IN  /\ loop = "idle"
        /\ ws[s].st = "send_user"
        /\ conversation_histories' =
               add_message_to_history(conversation_histories, c, "assistant", avatar_response)
        /\ appended' = [appended EXCEPT ![c] = Append(@, Message("assistant", avatar_response))]
        /\ ws' = [ after_add(ws, conversation_histories, c, "assistant", avatar_response)
                   EXCEPT ![s].st = "send_assistant",
                          ![s].mine = Append(@, Message("assistant", avatar_response)),
                          ![s].sent = MessageFrame("assistant", avatar_response) ]
        /\ UNCHANGED <<active_connections, post, loop>>

\* Line 196 back to line 171: the reply is sent, the coroutine waits for the
\* next frame.  Also the suggestions frame of lines 211-213.
SendDone(s) ==
    /\ loop = "idle"
    /\ ws[s].st \in {"send_assistant", "send_suggestions"}
    /\ ws' = [ws EXCEPT ![s].st = "receive"]
    /\ UNCHANGED <<active_connections, conversation_histories, post, loop, appended>>

\* Lines 197-208: a "get_suggestions" frame arrives; the call is handed to the
\* default executor with the client's list (a new empty list when there is none).
ReceiveGetSuggestions(s) ==
    /\ loop = "idle"
    /\ ws[s].st = "receive"
    /\ ws' = [ws EXCEPT ![s].st = "executor",
                        ![s].job = [NoJob EXCEPT
                                       !.st = "queued",
                                       !.live = ws[s].client_id \in DOMAIN conversation_histories]]
    /\ UNCHANGED <<active_connections, conversation_histories, post, loop, appended>>

\* Lines 172-174: a frame that is not JSON, or has no "type" / "content": the
\* exception is no WebSocketDisconnect and leaves the coroutine; disconnect is
\* not called.
ReceiveMalformed(s) ==
    /\ loop = "idle"
    /\ ws[s].st = "receive"
    /\ ws' = [ws EXCEPT ![s].st = "crashed"]
    /\ UNCHANGED <<active_connections, conversation_histories, post, loop, appended>>

\* An executor thread starts get_contextual_suggestions: it reads the list
\* (line 127) and enters the backend call.  It does not need the event loop.
ExecutorStart(s) ==
    /\ ws[s].job.st = "queued"
    /\ ws' = [ws EXCEPT ![s].job.st = "in_backend",
                        ![s].job.live = FALSE,
                        ![s].job.list = IF ws[s].job.live
                                        THEN conversation_histories[ws[s].client_id]
                                        ELSE ws[s].job.list]
    /\ UNCHANGED <<active_connections, conversation_histories, post, loop, appended>>

\* The backend call of the thread ends, whenever it does, and
\* get_contextual_suggestions returns or raises.
ExecutorFinish(s, run) ==
    LET r == get_contextual_suggestions(ws[s].job.list, <<>>, <<>>, run)
    IN  /\ ws[s].job.st = "in_backend"
        /\ ws' = [ws EXCEPT ![s].job.st = "finished",
                            ![s].job.prompt = r.prompt,
                            ![s].job.ret = r.ret]
        /\ UNCHANGED <<active_connections, conversation_histories, post, loop, appended>>

\* Lines 202-213: the await of the executor future ends on the event loop:
\* the suggestions are sent, or the exception leaves the coroutine.
Resume(s) ==
    /\ loop = "idle"
    /\ ws[s].job.st = "finished"
    /\ ws' = [ws EXCEPT
                 ![s].job = NoJob,
                 ![s].st = IF ws[s].job.ret.outcome = "return"
                           THEN "send_suggestions" ELSE "crashed",
                 ![s].sent = IF ws[s].job.ret.outcome = "return"
                             THEN SuggestionsFrame(ws[s].job.ret.value) ELSE @]
    /\ UNCHANGED <<active_connections, conversation_histories, post, loop, appended>>

\* Lines 214-216 and 25-28: receive_text raises WebSocketDisconnect.
Disconnect(s) ==
    LET c == ws[s].client_id
    IN  /\ loop = "idle"
        /\ ws[s].st = "receive"
        /\ active_connections' = remove(active_connections, s)
        /\ conversation_histories' = delete_history(conversation_histories, c)
        /\ ws' = [ IF c \in DOMAIN conversation_histories
                   THEN detach(ws, c, conversation_histories[c]) ELSE ws
                   EXCEPT ![s].st = "closed" ]
        /\ UNCHANGED <<post, loop, appended>>

\* Lines 228-241: POST /suggestions.  The coroutine calls
\* get_contextual_suggestions itself: the event loop thread is inside the
\* backend call until it ends.
PostStart(request) ==
    /\ loop = "idle"
    /\ post.st \in {"idle", "done"}
    /\ post' = [st |-> "in_backend", request |-> request, run |-> NoRun,
                prompt |-> NoPrompt, ret |-> NoRet, status |-> 0]
    /\ loop' = "get_suggestions_api"
    /\ UNCHANGED <<active_connections, conversation_histories, ws, appended>>

\* Lines 239-243: the call ends; the response is 200 with the suggestions, or
\* the exception leaves the handler (500).
PostFinish(run) ==
    LET r == get_contextual_suggestions(get(post.request, "conversation_history", <<>>),
                                        get(post.request, "topic", <<>>),
                                        get(post.request, "user_interests", <<>>),
                                        run)
    IN  /\ post.st = "in_backend"
        /\ post' = [post EXCEPT !.st = "done", !.run = run, !.prompt = r.prompt,
                                !.ret = r.ret,
                                !.status = IF r.ret.outcome = "return" THEN 200 ELSE 500]
        /\ loop' = "idle"
        /\ UNCHANGED <<active_connections, conversation_histories, ws, appended>>

\* Lines 33-45 called directly, as the message handler does.
AddMessage(c, role, content) ==
    /\ Len(appended[c]) < MaxAppends
    /\ conversation_histories' = add_message_to_history(conversation_histories, c, role, content)
    /\ appended' = [appended EXCEPT ![c] = Append(@, Message(role, content))]
    /\ UNCHANGED <<active_connections, ws, post, loop>>

(***************************************************************************)
(* Inputs                                                                  *)
(***************************************************************************)

\* The longest raw text enumerated character by character.
MaxChars == 4
\* The most items of an enumerated JSON array.
MaxItems == 5
\* The most lines of an enumerated multi-line text.
MaxLines == 4
\* The longest recent_messages enumerated.
MaxRecent == 7

Alphabet == {QUOTE, DASH, SPACE, NL, "a", "["}

\* Every text over Alphabet of at most MaxChars characters.
CharTexts == UNION {[1..k -> Alphabet] : k \in 0..MaxChars}

\* JSON values used as array items: two strings, a number, null.
Items == {<<QUOTE, "a", QUOTE>>, <<QUOTE, "b", QUOTE>>, <<"1">>, <<"n", "u", "l", "l">>}

\* The JSON arrays of at most MaxItems items, written compactly; the short
\* ones also with whitespace around the array and after the commas.
ArrayTexts ==
    LET compact == UNION {{<<"[">> \o join(<<",">>, items) \o <<"]">> : items \in [1..k -> Items]}
                          : k \in 0..MaxItems}
        spaced == UNION {{<<SPACE, "[">> \o join(<<",", SPACE>>, items) \o <<"]", NL>>
                            : items \in [1..k -> Items]} : k \in 0..2}
    IN  compact \cup spaced

\* JSON values that are not arrays, and arrays of an object and of an array.
ValueTexts ==
    { <<QUOTE, "a", QUOTE>>, <<"-", "1", "0">>, <<"t", "r", "u", "e">>, <<"{", "}">>,
      <<"n", "u", "l", "l">>, <<"[", "{", "}", ",", QUOTE, "a", QUOTE, "]">>,
      <<"[", "[", QUOTE, "a", QUOTE, "]", "]">> }

\* Lines as a chat model writes them when it ignores the requested format.
SampleLines ==
    { <<"a">>,
      <<DASH, SPACE, QUOTE, "b", QUOTE>>,
      <<QUOTE, "c", QUOTE, ",">>,
      <<>>,
      <<"[">>,
      <<"]">> }

LineTexts == UNION {{join(<<NL>>, lines) : lines \in [1..k -> SampleLines]} : k \in 1..MaxLines}

RawTexts == CharTexts \cup ArrayTexts \cup ValueTexts \cup LineTexts

\* Everything one call of suggestion_chain.run can do.
Runs == {Returns(text) : text \in RawTexts} \cup {Raises(e) : e \in DOMAIN ExceptionBases}

SampleRuns ==
    { Returns(<<"[", QUOTE, "a", QUOTE, ",", QUOTE, "b", QUOTE, "]">>),
      Returns(<<DASH, SPACE, "a", NL, DASH, SPACE, "b">>),
      Raises("TimeoutError"),
      Raises("JSONDecodeError") }

\* The i-th message of a request body.  Messages are told apart by their
\* content; some lack a key, which msg.get defaults.
RequestMessage(i, shape) ==
    LET role == IF i % 2 = 1 THEN "user" ELSE "assistant"
        content == <<"m", ToString(i)>>
    IN  CASE shape = "full" -> [role |-> role, content |-> content]
          [] shape = "no_role" -> [content |-> content]
          [] shape = "no_content" -> [role |-> role]

Histories ==
    {[i \in 1..n |-> RequestMessage(i, shape)] :
        n \in 0..MaxRecent, shape \in {"full", "no_role", "no_content"}}

Topics == {<<>>, <<"music">>}
Interests == {<<>>, <<"jazz">>, <<"jazz", "chess">>}

\* The bodies of POST /suggestions; a body may omit every key.
Requests ==
    {[conversation_history |-> h, topic |-> t, user_interests |-> i] :
        h \in Histories, t \in Topics, i \in Interests}
    \cup {[x \in {} |-> <<>>]}

\* The request of the specification's concrete scenario.
ProbeRequest ==
    [conversation_history |-> <<Message("user", <<"Hi">>), Message("assistant", <<"Hello!">>)>>,
     topic |-> <<>>, user_interests |-> <<>>]

\* The backend behaviours enumerated with a request: every behaviour with the
\* probe request, the sample behaviours with every other request.
RunsFor(request) == IF request = ProbeRequest THEN Runs ELSE SampleRuns

(***************************************************************************)
(* Specifications                                                          *)
(***************************************************************************)

\* The server: WebSocket sessions and POST requests interleaved.  The backend
\* answers with a JSON array or raises; the parsing of every other answer is
\* SpecParse's.
ServerRuns == {Returns(<<"[", QUOTE, "a", QUOTE, "]">>), Raises("JSONDecodeError")}
ServerRequests ==
    { [conversation_history |-> <<Message("user", <<"Hi">>)>>, topic |-> <<"music">>,
       user_interests |-> <<"jazz">>] }

Next ==
    \/ \E s \in Sessions, c \in Clients : Connect(s, c)
    \/ \E s \in Sessions : ReceiveMessage(s, <<s, ToString(ws[s].n + 1)>>)
    \/ \E s \in Sessions : ReplyMessage(s)
    \/ \E s \in Sessions : SendDone(s)
    \/ \E s \in Sessions : ReceiveGetSuggestions(s)
    \/ \E s \in Sessions : ReceiveMalformed(s)
    \/ \E s \in Sessions : ExecutorStart(s)
    \/ \E s \in Sessions, run \in ServerRuns : ExecutorFinish(s, run)
    \/ \E s \in Sessions : Resume(s)
    \/ \E s \in Sessions : Disconnect(s)
    \/ \E request \in ServerRequests : PostStart(request)
    \/ \E run \in ServerRuns : PostFinish(run)

Spec == Init /\ [][Next]_vars

\* get_contextual_suggestions applied once to every enumerated request and
\* backend behaviour, through the handler of POST /suggestions.
NextParse ==
    \/ \E request \in Requests \cup {ProbeRequest} : post.st = "idle" /\ PostStart(request)
    \/ \E run \in RunsFor(post.request) : PostFinish(run)

SpecParse == Init /\ [][NextParse]_vars

\* add_message_to_history alone: the n-th message of a conversation is
\* numbered n, roles alternating.
NextHist ==
    \E c \in Clients :
        AddMessage(c,
                   IF Len(appended[c]) % 2 = 0 THEN "user" ELSE "assistant",
                   <<c, ToString(Len(appended[c]) + 1)>>)

SpecHist == Init /\ [][NextHist]_vars

(***************************************************************************)
(* Properties                                                              *)
(***************************************************************************)

\* A call of get_contextual_suggestions has ended.
Done == post.st = "done"

Min(a, b) == IF a < b THEN a ELSE b

\* C1: whatever error the backend call raises, get_contextual_suggestions
\* does not raise and returns exactly the three hard-coded suggestions.
C1_BackendErrorYieldsFallback ==
    (Done /\ post.run.kind = "raise") =>
        /\ post.ret.outcome = "return"
        /\ post.ret.value = FALLBACK

\* C2: for every input and every backend behaviour (text of any kind, or a
\* failure), get_contextual_suggestions returns a sequence of 0 to 3 elements.
C2_ReturnsAtMostThree ==
    Done =>
        /\ post.ret.outcome = "return"
        /\ Len(post.ret.value) \in 0..3

\* The JSON text of an array of strings: "[", the quoted strings separated by
\* sep, "]".
EncodeArray(strings, sep) ==
    <<"[">> \o join(sep, [i \in DOMAIN strings |-> <<QUOTE>> \o strings[i] \o <<QUOTE>>]) \o <<"]">>

\* Arrays of at most MaxItems strings, each with its JSON text.
StringArrays ==
    UNION {{[strings |-> strings, text |-> EncodeArray(strings, sep)] :
                strings \in [1..k -> {<<"a">>, <<"b">>, <<>>}],
                sep \in {<<",">>, <<",", SPACE>>}} : k \in 0..MaxItems}

\* C3: when the trimmed backend text is a JSON array of n strings, the result
\* is its first min(3, n) strings in order, produced by the JSON branch and not
\* by the line splitting or the hard-coded fallback.
C3_JsonArrayTruncated ==
    (Done /\ post.run.kind = "text") =>
        \A a \in StringArrays :
            strip(post.run.text, Whitespace) = a.text =>
                /\ post.ret.outcome = "return"
                /\ post.ret.path = "json_list"
                /\ post.ret.value =
                       [i \in 1..Min(3, Len(a.strings)) |-> PyStr(a.strings[i])]

\* C3's case: the backend returned an array of five strings and the result is
\* the first three.
C3_Witness ==
    /\ Done
    /\ post.run = Returns(EncodeArray(<<<<"a">>, <<"b">>, <<"b">>, <<"a">>, <<"b">>>>, <<",">>))
    /\ post.ret.value = <<PyStr(<<"a">>), PyStr(<<"b">>), PyStr(<<"b">>)>>

\* The cleaned lines of a text, in order: each line of the text stripped of
\* surrounding whitespace and of leading and trailing quotes and dashes.
CleanedLines(text) ==
    LET lines == split(text, <<>>, <<>>) IN [i \in DOMAIN lines |-> clean(lines[i])]

\* C4: when the backend text is not valid JSON, the result is the first three,
\* in order, of the cleaned lines that are neither empty nor exactly "[" or "]".
C4_LinesKeptUnlessEmptyOrBracket ==
    (Done /\ post.run.kind = "text" /\ ~json_loads(strip(post.run.text, Whitespace)).ok) =>
        LET kept == SelectSeq(CleanedLines(post.run.text),
                              LAMBDA l : l \notin {<<>>, <<"[">>, <<"]">>})
        IN  /\ post.ret.outcome = "return"
            /\ post.ret.value = [i \in 1..Min(3, Len(kept)) |-> PyStr(kept[i])]

\* C5: every element of a returned sequence is a text string, whatever the
\* backend returned.
C5_ElementsAreStrings ==
    (Done /\ post.ret.outcome = "return") =>
        \A i \in DOMAIN post.ret.value : post.ret.value[i].t = "str"

\* The messages add_message_to_history kept of those it was given: the newest
\* min(MaxHistory, n), in their order.
NewestKept(history, given) ==
    /\ Len(history) = Min(20, Len(given))
    /\ \A i \in 1..Len(history) : history[i] = given[Len(given) - Len(history) + i]

\* C6: after any sequence of add_message_to_history calls every history has at
\* most 20 messages and is the newest min(20, n) of the n messages appended to
\* its conversation, in order; a conversation nothing was appended to has no
\* history, so appends to one id leave the others alone.
C6_HistoryIsNewestTwenty ==
    \A c \in Clients :
        IF appended[c] = <<>>
        THEN c \notin DOMAIN conversation_histories
        ELSE /\ c \in DOMAIN conversation_histories
             /\ Len(conversation_histories[c]) <= 20
             /\ NewestKept(conversation_histories[c], appended[c])

\* C6's case: a conversation was given 22 messages and holds the last 20 (the
\* 21st append evicted the first message), next to another conversation.
C6_Witness ==
    \E c, d \in Clients :
        /\ c # d
        /\ Len(appended[c]) = 22
        /\ Len(conversation_histories[c]) = 20
        /\ conversation_histories[c][1] = appended[c][3]
        /\ Len(appended[d]) = 1
        /\ d \in DOMAIN conversation_histories

\* The "{role}: {content}\n" of messages from..to of a sequence, in order.
RECURSIVE Rendered(_, _, _)
Rendered(msgs, from, to) ==
    IF from > to THEN <<>>
    ELSE <<get(msgs[from], "role", "user"), ": ">> \o get(msgs[from], "content", <<>>) \o <<NL>>
         \o Rendered(msgs, from + 1, to)

\* C7: the history text handed to the generator is the concatenation of
\* "{role}: {content}\n" over the last min(5, n) of the n recent messages, in
\* order (nothing for n = 0), and the call leaves the sequence it was given as
\* it was.
C7_HistoryTextIsLastFive ==
    /\ [](Done =>
            LET msgs == get(post.request, "conversation_history", <<>>)
                n == Len(msgs)
            IN  post.prompt.conversation_history = Rendered(msgs, n - Min(5, n) + 1, n))
    /\ [][post.st = "in_backend" => post'.request = post.request]_vars

\* C7's case: seven messages were given and the text holds the last five.
C7_Witness ==
    /\ Done
    /\ "conversation_history" \in DOMAIN post.request
    /\ Len(post.request.conversation_history) = 7
    /\ post.prompt.conversation_history =
           Rendered(post.request.conversation_history, 3, 7)
    /\ post.prompt.conversation_history # <<>>

\* The WebSocket session of s is connected.
Connected(s) ==
    ws[s].st \in {"receive", "send_user", "send_assistant", "executor", "send_suggestions"}

\* C8: while a session stays connected, the history of its client id exists
\* and holds the newest min(20, n) of the n messages the session appended; no
\* other session's connect or disconnect empties or deletes it.
C8_HistoryLivesWithSession ==
    \A s \in Sessions :
        Connected(s) =>
            /\ ws[s].client_id \in DOMAIN conversation_histories
            /\ \A i \in 1..Len(ws[s].mine) :
                   i > Len(ws[s].mine) - 20 =>
                       \E j \in DOMAIN conversation_histories[ws[s].client_id] :
                           conversation_histories[ws[s].client_id][j] = ws[s].mine[i]

\* A backend call is in progress, for a WebSocket job or for a POST request.
BackendCallInProgress ==
    \/ post.st = "in_backend"
    \/ \E s \in Sessions : ws[s].job.st = "in_backend"

\* C9: whichever entry point started it, a backend call in progress leaves the
\* event loop free: a session waiting for a frame can receive one and have it
\* handled.
C9_BackendCallOffEventLoop ==
    BackendCallInProgress =>
        /\ loop = "idle"
        /\ \A s \in Sessions : ws[s].st = "receive" => ENABLED ReceiveGetSuggestions(s)

\* C10: every suggestion the line splitting returns is non-empty and neither
\* begins nor ends with whitespace, a double quote or a dash.
C10_LinesFullyStripped ==
    (Done /\ post.ret.outcome = "return" /\ post.ret.path = "lines") =>
        \A i \in DOMAIN post.ret.value :
            LET s == post.ret.value[i].s
            IN  /\ s # <<>>
                /\ s[1] \notin Whitespace \cup {QUOTE, DASH}
                /\ s[Len(s)] \notin Whitespace \cup {QUOTE, DASH}

====
